---- MODULE Spec2Model ----
(***************************************************************************)
(* State-machine model of the anomaly-detection front-end: the App-level   *)
(* state (isConnected, currentDataset, the mounted route) and the          *)
(* Dashboard page (RunInfo, channels, feature importance, playback timer). *)
(*                                                                         *)
(* Number representation.                                                  *)
(*  - Point counts (totalPoints, processedPoints) and playbackSpeed are    *)
(*    kept in halves: the speeds 0.5, 1, 2 are 1, 2, 4 and 100 points are  *)
(*    200, so that the tick's 5 * playbackSpeed stays an integer.          *)
(*  - normalRange.min/max are kept in tenths (the 10% buffer of            *)
(*    createEquipmentVisualizations), sample values in units.              *)
(*  - timestamps are presentation only and are left out of DataPoint.      *)
(*  - the floating-point numbers of calculateFeatureImportance (means,     *)
(*    variances, scores, normalized values) are fixed-point numbers with   *)
(*    FixScale units per 1, every division and square root rounded down;   *)
(*    what holds up to floating-point epsilon in the program holds up to   *)
(*    one unit per rounded term in the model.                              *)
(*                                                                         *)
(* A React handler, the re-render it causes and the effects of that render *)
(* are one step: each action ends with the init effect and the playback    *)
(* effect exactly as the dependency arrays make them run.                  *)
(*                                                                         *)
(* The specifications share the variables. Spec is the application seen   *)
(* from the Dashboard (the Upload page is the arrival of a dataset, the    *)
(* Connect page the two changes of isConnected) and SpecLive is Spec with  *)
(* the playback interval firing fairly; SpecFI opens the Dashboard on each *)
(* dataset of a family, for the properties of calculateFeatureImportance;  *)
(* SpecUpload is the Upload page with its progress intervals and its       *)
(* suspended handleUpload calls; SpecConnect is the Connect page with its  *)
(* connection timeouts.                                                    *)
(* An async handler is split at its await: the call up to the await is one *)
(* step, each way the awaited promise can settle is another.               *)
(***************************************************************************)
EXTENDS Integers, Sequences, FiniteSets, Bags, TLC

\* ------------------------------------------------------------------ bounds
\* Record count of the long datasets (more than one window of samples).
MaxRecords == 21
\* Number of random outcomes drawn for the simulated hardware samples.
HwSeeds == 2
\* Record count of the datasets of the feature-importance runs.
MaxFeatureRows == 3
\* Records of a simulated sample prediction (Math.min(recordCount, 100) cut down).
SampleRows == 3
\* Draws of Math.random() a simulated sample prediction is run with.
SampleSeeds == 1
\* Sample datasets offered for selection (of the three of sampleDatasets).
MaxSampleId == 1
\* handleUpload calls per mount of the Upload page, calls suspended at the
\* same time, and pending navigations.
MaxAttempts == 2
MaxPending == 2
MaxNavTimeouts == 1
\* Devices of the scanned list, connection timeouts pending at the same time,
\* and pending navigations of successful connections.
MaxDevices == 2
MaxConnectPending == 2
MaxConnectNav == 2

\* ------------------------------------------------------- program constants
PointScale == 2       \* halves: playbackSpeed 0.5 is 1
RangeScale == 10      \* tenths: the 0.1 buffer of the normal range
FixScale == 1000      \* units per 1 of the fixed-point scores
ProgressStep == 5     \* prev + 5 of the upload progress interval
ProgressCap == 90     \* where the progress interval stops
ProgressDone == 100   \* setUploadProgress(100)
TickStep == 5         \* points per tick and unit of speed
WindowSize == 20      \* dataset.data.slice(0, 20) / Array.from({length: 20})
HwTotalPoints == 100  \* generateSampleHardwareData runInfo
HwAnomalies == 3
HwNormalCount == 90
HwWarningCount == 7

Min(a, b) == IF a < b THEN a ELSE b
Max(a, b) == IF a > b THEN a ELSE b
Pt(n) == n * PointScale

\* playbackSpeed options of the three speed buttons: 0.5x, 1x, 2x
Speeds == {1, 2, 4}

Routes == {"home", "upload", "connect", "dashboard"}

VARIABLES
  route,                \* which page the Router has mounted
  isConnected,          \* App state
  currentDataset,       \* App state; present = FALSE is null
  equipments,           \* Dashboard state
  runInfo,
  playbackSpeed,
  isPlaying,
  anomalyDistribution,
  featureImportance,
  timer,                \* the interval handle the playback effect holds
  intervals,            \* the window's table of live playback intervals (a bag)
  uploadedFile, selectedSample, uploadProgress, isUploading, uploadComplete,
  uploadError,          \* state of the Upload page
  progressIntervals,    \* live progress intervals of the mounted Upload page
  attempts,             \* handleUpload calls suspended at their await (a bag)
  attemptCount,         \* handleUpload calls made on the mounted Upload page
  navTimeouts,          \* pending setTimeout(() => navigate('/dashboard'))
  connectionStatus,     \* state of the Connect page
  selectedDevice,
  connectTimeouts,      \* pending 2 s connection timeouts, oldest first
  connectNavTimeouts    \* pending navigations scheduled by a connection

\* the state of the Dashboard component
dashState == <<equipments, runInfo, anomalyDistribution, featureImportance,
               playbackSpeed, isPlaying, timer, intervals>>

\* the state of the Upload component and of the calls it started
uploadState == <<uploadedFile, selectedSample, uploadProgress, isUploading,
                 uploadComplete, uploadError, progressIntervals, attempts,
                 attemptCount, navTimeouts>>

\* the state of the Connect component and of the timeouts it started
connectState == <<connectionStatus, selectedDevice, connectTimeouts,
                  connectNavTimeouts>>

vars == <<route, isConnected, currentDataset, equipments, runInfo,
          playbackSpeed, isPlaying, anomalyDistribution, featureImportance,
          timer, intervals, uploadedFile, selectedSample, uploadProgress,
          isUploading, uploadComplete, uploadError, progressIntervals, attempts,
          attemptCount, navTimeouts,
          connectionStatus, selectedDevice, connectTimeouts,
          connectNavTimeouts>>

\* ---------------------------------------------------------------- datasets
NumEntry(k, v) == [k |-> k, t |-> "number", n |-> v, s |-> ""]
StrEntry(k, v) == [k |-> k, t |-> "string", n |-> 0, s |-> v]

\* A prediction record: its own keys in insertion order.
Row(type, temp, torque, pred) ==
  << StrEntry("Type", type), NumEntry("temp", temp),
     NumEntry("torque", torque), StrEntry("Prediction", pred) >>

LabelOnlyRow(type, pred) == << StrEntry("Type", type), StrEntry("Prediction", pred) >>

\* Row patterns the datasets repeat. Labels and values are chosen so that
\* a Failure row can lie inside the normal range and a No Failure row outside.
Patterns ==
  << << Row("L", 0, 5, "No Failure"), Row("M", 5, 5, "Failure"),
        Row("H", 9, 2, "No Failure") >>,
     << Row("L", 5, 3, "Failure"), Row("L", 5, 3, "No Failure") >>,
     << Row("M", 1, 1, "Unknown"), Row("H", 4, 2, "Failure"),
        Row("L", 2, 8, "No Failure"), Row("L", 3, 0, "No Failure") >>,
     << LabelOnlyRow("L", "Failure"), LabelOnlyRow("M", "No Failure") >> >>

\* item[key]: the entry of a record under a key, or the undefined entry
Undefined == [k |-> "", t |-> "undefined", n |-> 0, s |-> ""]
Get(item, key) ==
  IF \E j \in 1..Len(item) : item[j].k = key
  THEN item[CHOOSE j \in 1..Len(item) : item[j].k = key]
  ELSE Undefined

Prediction(item) == Get(item, "Prediction").s

\* {i \in 1..Len(s)} filtered, as a count
\* (faulty variant: the label is not compared)
CountAll(data, label) == Len(data)
CountWhere(data, label) == Cardinality({i \in 1..Len(data) : Prediction(data[i]) = label})

NullDataset ==
  [present |-> FALSE, records |-> 0, anomaliesCount |-> 0, data |-> << >>]

\* Upload: records: predictionData.length, data: predictionData,
\* anomaliesCount: the number of records predicted "Failure"
MkDataset(n, p) ==
  LET data == [i \in 1..n |-> Patterns[p][((i - 1) % Len(Patterns[p])) + 1]]
  IN [present |-> TRUE, records |-> n,
      anomaliesCount |-> CountWhere(data, "Failure"), data |-> data]

\* The datasets an upload can deliver: <<record count, pattern>>. An empty
\* one, short ones of every pattern, and one longer than the sample window.
DatasetShapes ==
  { <<0, 1>>, <<3, 1>>, <<MaxRecords, 1>>, <<1, 2>>, <<4, 3>>, <<2, 4>> }

Datasets == { MkDataset(sh[1], sh[2]) : sh \in DatasetShapes }

RECURSIVE SelectKeys(_, _)
\* Object.keys(first).filter(...): the numeric feature names, in key order
SelectKeys(item, j) ==
  IF j > Len(item) THEN << >>
  ELSE IF item[j].k # "Prediction" /\ item[j].k # "Type" /\ item[j].t = "number"
       THEN << item[j].k >> \o SelectKeys(item, j + 1)
       ELSE SelectKeys(item, j + 1)

NumericFeatures(dataset) == SelectKeys(dataset.data[1], 1)

\* ------------------------------------------------------ feature importance
RECURSIVE SqrtSearch(_, _, _)
SqrtSearch(n, lo, hi) ==
  IF lo >= hi THEN lo
  ELSE LET mid == (lo + hi + 1) \div 2
       IN IF mid * mid <= n THEN SqrtSearch(n, mid, hi) ELSE SqrtSearch(n, lo, mid - 1)

\* Math.sqrt of a number with FixScale^2 units per 1, in FixScale units
Sqrt(n) == SqrtSearch(n, 0, Min(n, 46340))

Abs(x) == IF x < 0 THEN 0 - x ELSE x

RECURSIVE GroupFrom(_, _, _, _)
\* dataset.data.filter(item => item.Prediction === label).map(item => item[feature])
GroupFrom(data, feature, label, i) ==
  IF i > Len(data) THEN << >>
  ELSE IF Prediction(data[i]) = label
       THEN << Get(data[i], feature).n >> \o GroupFrom(data, feature, label, i + 1)
       ELSE GroupFrom(data, feature, label, i + 1)

GroupValues(dataset, feature, label) == GroupFrom(dataset.data, feature, label, 1)

RECURSIVE SumSeq(_, _)
\* values.reduce((sum, val) => sum + val, 0), from position i on
SumSeq(values, i) == IF i > Len(values) THEN 0 ELSE values[i] + SumSeq(values, i + 1)

\* reduce(...) / Math.max(values.length, 1), in FixScale units
Mean(values) == (SumSeq(values, 1) * FixScale) \div Max(Len(values), 1)

\* reduce((sum, val) => sum + Math.pow(val - mean, 2), 0) / Math.max(length, 1),
\* in FixScale^2 units
Variance(values) ==
  LET mean == Mean(values)
      squares == [i \in 1..Len(values) |->
                    (values[i] * FixScale - mean) * (values[i] * FixScale - mean)]
  IN SumSeq(squares, 1) \div Max(Len(values), 1)

\* score of one feature, in FixScale units
\* (faulty variant: the division without the zero-variance guard's fallback,
\*  the mean difference dropped)
FeatureScoreNoFallback(dataset, feature) ==
  LET normalValues == GroupValues(dataset, feature, "No Failure")
      anomalyValues == GroupValues(dataset, feature, "Failure")
      meanDifference == Abs(Mean(normalValues) - Mean(anomalyValues))
      varianceSum == Variance(normalValues) + Variance(anomalyValues)
  IN IF varianceSum = 0 THEN 0
     ELSE (meanDifference * FixScale) \div Sqrt(varianceSum)
FeatureScore(dataset, feature) ==
  LET normalValues == GroupValues(dataset, feature, "No Failure")
      anomalyValues == GroupValues(dataset, feature, "Failure")
      meanDifference == Abs(Mean(normalValues) - Mean(anomalyValues))
      varianceSum == Variance(normalValues) + Variance(anomalyValues)
  IN IF varianceSum = 0 THEN meanDifference
     ELSE (meanDifference * FixScale) \div Sqrt(varianceSum)

\* importances: one {name, value: score} per numeric feature
\* (faulty variant: the filter on typeof ... === "number" left out)
ImportancesOfAllKeys(dataset) ==
  LET first == dataset.data[1]
      keys == [j \in 1..Len(first) |-> first[j].k]
  IN [x \in 1..Len(keys) |-> [name |-> keys[x], value |-> FeatureScore(dataset, keys[x])]]
Importances(dataset) ==
  LET numericFeatures == NumericFeatures(dataset)
  IN [x \in 1..Len(numericFeatures) |->
        [name |-> numericFeatures[x], value |-> FeatureScore(dataset, numericFeatures[x])]]

\* item.value / totalScore, or 0 when totalScore === 0
\* (faulty variant: divided by the largest score instead of the total)
NormalizeByMax(importances) ==
  LET scores == [x \in 1..Len(importances) |-> importances[x].value]
      top == IF Len(scores) = 0 THEN 0
             ELSE CHOOSE v \in {scores[x] : x \in 1..Len(scores)} :
                    \A x \in 1..Len(scores) : v >= scores[x]
  IN [x \in 1..Len(importances) |->
        [name |-> importances[x].name,
         value |-> IF top = 0 THEN 0 ELSE (importances[x].value * FixScale) \div top]]
Normalize(importances) ==
  LET totalScore == SumSeq([x \in 1..Len(importances) |-> importances[x].value], 1)
  IN [x \in 1..Len(importances) |->
        [name |-> importances[x].name,
         value |-> IF totalScore = 0 THEN 0
                   ELSE (importances[x].value * FixScale) \div totalScore]]

RECURSIVE InsertDescending(_, _)
\* item put behind every entry whose value is >= its own (a stable sort step)
InsertDescending(sorted, item) ==
  IF Len(sorted) = 0 THEN << item >>
  ELSE IF sorted[1].value >= item.value
       THEN << sorted[1] >> \o InsertDescending(Tail(sorted), item)
       ELSE << item >> \o sorted

RECURSIVE SortFrom(_, _, _)
SortFrom(list, i, sorted) ==
  IF i > Len(list) THEN sorted
  ELSE SortFrom(list, i + 1, InsertDescending(sorted, list[i]))

\* normalizedImportances.sort((a, b) => b.value - a.value)
\* (faulty variant: the sort left out)
SortDescendingSkipped(list) == list
SortDescending(list) == SortFrom(list, 1, << >>)

\* the list calculateFeatureImportance sets, for a dataset with records
calculateFeatureImportance(dataset) == SortDescending(Normalize(Importances(dataset)))

\* --------------------------------------------------------------- Dashboard
InitRunInfo ==
  [totalPoints |-> 0, processedPoints |-> 0, anomaliesFound |-> 0, isComplete |-> FALSE]

InitDistribution == [normal |-> 0, warning |-> 0, anomaly |-> 0]

NoTimer == [on |-> FALSE, speed |-> 0, equipments |-> << >>]

\* value > normalRange.max || value < normalRange.min (range in tenths)
OutOfRange(value, range) ==
  value * RangeScale > range.max \/ value * RangeScale < range.min

\* Math.min(...values) / Math.max(...values) over a non-empty column
ColumnMin(values) == CHOOSE v \in {values[i] : i \in 1..Len(values)} :
                       \A i \in 1..Len(values) : v <= values[i]
ColumnMax(values) == CHOOSE v \in {values[i] : i \in 1..Len(values)} :
                       \A i \in 1..Len(values) : v >= values[i]

\* isAnomaly of a data point made from a dataset record
\* (faulty variant: a range check instead of the label)
RecordIsAnomalyByRange(item, value, range) == OutOfRange(value, range)
RecordIsAnomaly(item, value, range) == Prediction(item) = "Failure"

\* status given to a channel when it is created from a dataset
\* (faulty variant: the three tiers of the tick)
LoadStatusWithWarning(latest, range) ==
  IF latest.isAnomaly THEN "anomaly"
  ELSE IF OutOfRange(latest.value, range) THEN "warning" ELSE "normal"
LoadStatus(latest, range) == IF latest.isAnomaly THEN "anomaly" ELSE "normal"

\* one element of generatedEquipments
FeatureEquipment(dataset, feature, index) ==
  LET values == [i \in 1..Len(dataset.data) |-> Get(dataset.data[i], feature).n]
      min == ColumnMin(values)
      max == ColumnMax(values)
      range == [min |-> min * RangeScale + (max - min),
                max |-> max * RangeScale - (max - min)]
      shown == Min(Len(dataset.data), WindowSize)
      dataPoints == [i \in 1..shown |->
                       [value |-> values[i], normalRange |-> range,
                        isAnomaly |-> RecordIsAnomaly(dataset.data[i], values[i], range)]]
      latest == dataPoints[Len(dataPoints)]
  IN [id |-> <<"feature", index>>, name |-> feature, data |-> dataPoints,
      currentValue |-> latest.value, normalRange |-> range,
      status |-> LoadStatus(latest, range)]

\* generatedEquipments, for a dataset with at least one record
createEquipmentVisualizations(dataset) ==
  LET numericFeatures == NumericFeatures(dataset)
  IN [x \in 1..Len(numericFeatures) |->
        FeatureEquipment(dataset, numericFeatures[x], x - 1)]

\* Samples of a simulated channel: value = base + Math.random() * span, one of
\* the candidate values per position, the draw selected by seed.
HwSamples(candidates, range, anomalyAt, seed) ==
  [i \in 1..WindowSize |->
     [value |-> candidates[((i - 1 + seed) % Len(candidates)) + 1],
      normalRange |-> range,
      isAnomaly |-> (i - 1) \in anomalyAt]]

PumpRange == [min |-> 55 * RangeScale, max |-> 65 * RangeScale]
MotorRange == [min |-> 80 * RangeScale, max |-> 90 * RangeScale]
FlowRange == [min |-> 110 * RangeScale, max |-> 140 * RangeScale]

\* hardwareEquipments
HardwareEquipments(seed) ==
  << [id |-> <<"pump", 1>>, name |-> "Pump Pressure",
      data |-> HwSamples(<<50, 60, 69>>, PumpRange, {17}, seed),
      currentValue |-> 67, normalRange |-> PumpRange, status |-> "warning"],
     [id |-> <<"motor", 1>>, name |-> "Motor Temperature",
      data |-> HwSamples(<<85, 94>>, MotorRange, {18, 19}, seed),
      currentValue |-> 95, normalRange |-> MotorRange, status |-> "anomaly"],
     [id |-> <<"flow", 1>>, name |-> "Flow Rate",
      data |-> HwSamples(<<120, 139>>, FlowRange, {}, seed),
      currentValue |-> 128, normalRange |-> FlowRange, status |-> "normal"] >>

\* the sample feature importance: 0.45, 0.35, 0.20
HwFeatureImportance ==
  << [name |-> "Motor Temperature", value |-> (45 * FixScale) \div 100],
     [name |-> "Pump Pressure", value |-> (35 * FixScale) \div 100],
     [name |-> "Flow Rate", value |-> (20 * FixScale) \div 100] >>

\* What the Dashboard state setters of generateSampleHardwareData leave behind.
generateSampleHardwareData(seed) ==
  [equipments |-> HardwareEquipments(seed),
   runInfo |-> [totalPoints |-> Pt(HwTotalPoints), processedPoints |-> Pt(HwTotalPoints),
                anomaliesFound |-> HwAnomalies, isComplete |-> TRUE],
   anomalyDistribution |-> [normal |-> HwNormalCount, warning |-> HwWarningCount,
                            anomaly |-> HwAnomalies],
   featureImportance |-> HwFeatureImportance]

\* What processDatasetForDashboard leaves behind; cur is the state before it.
\* (faulty variant: the counts are added to those of the state before)
processDatasetAccumulating(dataset, cur) ==
  IF Len(dataset.data) = 0 THEN cur
  ELSE LET anomalyCount == CountWhere(dataset.data, "Failure")
       IN [equipments |-> createEquipmentVisualizations(dataset),
           runInfo |-> [totalPoints |-> Pt(dataset.records),
                        processedPoints |-> Pt(dataset.records),
                        anomaliesFound |-> cur.runInfo.anomaliesFound + anomalyCount,
                        isComplete |-> TRUE],
           anomalyDistribution |-> [normal |-> CountWhere(dataset.data, "No Failure"),
                                    warning |-> 0, anomaly |-> anomalyCount],
           featureImportance |-> calculateFeatureImportance(dataset)]
processDatasetForDashboard(dataset, cur) ==
  IF Len(dataset.data) = 0 THEN cur
  ELSE LET anomalyCount == CountWhere(dataset.data, "Failure")
       IN [equipments |-> createEquipmentVisualizations(dataset),
           runInfo |-> [totalPoints |-> Pt(dataset.records),
                        processedPoints |-> Pt(dataset.records),
                        anomaliesFound |-> anomalyCount, isComplete |-> TRUE],
           anomalyDistribution |-> [normal |-> CountWhere(dataset.data, "No Failure"),
                                    warning |-> 0, anomaly |-> anomalyCount],
           featureImportance |-> calculateFeatureImportance(dataset)]

\* The initialization effect, deps [isConnected, currentDataset].
\* (faulty variant: a dataset is preferred to the hardware connection)
InitEffectDatasetFirst(conn, dataset, seed, cur) ==
  IF dataset.present THEN processDatasetForDashboard(dataset, cur)
  ELSE IF conn THEN generateSampleHardwareData(seed)
  ELSE cur

InitEffect(conn, dataset, seed, cur) ==
  IF conn THEN generateSampleHardwareData(seed)
  ELSE IF dataset.present THEN processDatasetForDashboard(dataset, cur)
  ELSE cur

\* status of a channel whose visible sample is latestDataPoint
\* (faulty variant: the warning tier dropped)
TickStatusNoWarning(latestDataPoint, range) ==
  IF latestDataPoint.isAnomaly THEN "anomaly" ELSE "normal"
TickStatus(latestDataPoint, range) ==
  IF latestDataPoint.isAnomaly THEN "anomaly"
  ELSE IF OutOfRange(latestDataPoint.value, range) THEN "warning" ELSE "normal"

\* Math.max(1, Math.floor(equipment.data.length * progress)),
\* progress = newProcessed / totalPoints
\* (faulty variant: without Math.max(1, ...))
PointsToShowNoMax(length, newProcessed, totalPoints) ==
  (length * newProcessed) \div totalPoints
PointsToShow(length, newProcessed, totalPoints) ==
  Max(1, (length * newProcessed) \div totalPoints)

\* updatedEquipments of updateEquipmentVisualization, for a non-empty closure
\* value eqs of equipments
\* (faulty variant: the sample sequence is cut to the visible window)
updateEquipmentVisualizationCut(eqs, newProcessed, totalPoints) ==
  [x \in 1..Len(eqs) |->
     LET equipment == eqs[x]
         shown == PointsToShow(Len(equipment.data), newProcessed, totalPoints)
         latestDataPoint == equipment.data[shown]
     IN [equipment EXCEPT !.data = SubSeq(equipment.data, 1, shown),
                          !.currentValue = latestDataPoint.value,
                          !.status = TickStatus(latestDataPoint, equipment.normalRange)]]
updateEquipmentVisualization(eqs, newProcessed, totalPoints) ==
  [x \in 1..Len(eqs) |->
     LET equipment == eqs[x]
         latestDataPoint ==
           equipment.data[PointsToShow(Len(equipment.data), newProcessed, totalPoints)]
     IN [equipment EXCEPT !.currentValue = latestDataPoint.value,
                          !.status = TickStatus(latestDataPoint, equipment.normalRange)]]

\* newProcessed of the tick, speed being the playbackSpeed the interval closed over
\* Faulty variants: no Math.min clamp; the step added to 0 instead of prev.
NewProcessedUnclamped(prev, speed) == prev.processedPoints + TickStep * speed
NewProcessedFromZero(prev, speed) == Min(TickStep * speed, prev.totalPoints)
NewProcessed(prev, speed) ==
  Min(prev.processedPoints + TickStep * speed, prev.totalPoints)

\* the setRunInfo updater of the tick
TickRunInfo(prev, speed) ==
  [prev EXCEPT !.processedPoints = NewProcessed(prev, speed),
               !.isComplete = (NewProcessed(prev, speed) >= prev.totalPoints)]

\* The playback effect, deps [currentDataset, isPlaying, playbackSpeed,
\* runInfo.isComplete]: when a dependency changed, the cleanup clears the
\* previous interval and the body registers a new one if its condition holds.
\* eqs is the equipments value of the render, which the callback closes over.
\* (faulty variant of the condition: isComplete not consulted)
PlaybackCondNoComplete(dataset, playing, info) == dataset.present /\ playing
PlaybackCond(dataset, playing, info) ==
  dataset.present /\ playing /\ ~info.isComplete

\* if (timer) clearInterval(timer): the interval of handle t leaves the table
\* (faulty variant: the call has no effect)
ClearIntervalSkipped(table, t) == table
ClearInterval(table, t) ==
  IF t.on /\ BagIn(t, table) THEN table (-) SetToBag({t}) ELSE table

\* setInterval(...): a new interval enters the table
SetInterval(table, t) == table (+) SetToBag({t})

\* prev is [timer, intervals]: the handle the previous run of the effect
\* holds and the table of live intervals; the result is the same pair after
\* the cleanup of the previous run and the body of the new one.
\* Faulty variant: the effect returns no cleanup, a registered interval stays.
PlaybackEffectNoCleanup(prev, changed, dataset, playing, speed, info, eqs) ==
  IF ~changed THEN prev
  ELSE IF PlaybackCond(dataset, playing, info)
       THEN LET t == [on |-> TRUE, speed |-> speed, equipments |-> eqs]
            IN [timer |-> t, intervals |-> SetInterval(prev.intervals, t)]
       ELSE prev

PlaybackEffect(prev, changed, dataset, playing, speed, info, eqs) ==
  IF ~changed THEN prev
  ELSE LET cleared == ClearInterval(prev.intervals, prev.timer)
       IN IF PlaybackCond(dataset, playing, info)
          THEN LET t == [on |-> TRUE, speed |-> speed, equipments |-> eqs]
               IN [timer |-> t, intervals |-> SetInterval(cleared, t)]
          ELSE [timer |-> NoTimer, intervals |-> cleared]

\* the cleanup returned by the playback effect, when the Dashboard unmounts
\* (faulty variant: the interval is left registered)
UnmountLeak(prev) == prev
UnmountCleanup(prev) ==
  [timer |-> NoTimer, intervals |-> ClearInterval(prev.intervals, prev.timer)]

\* ------------------------------------------------------------- Upload page
NoFile == "none"      \* uploadedFile === null
NoSample == 0         \* selectedSample === null
NoError == ""         \* uploadError === null

\* the useState initial values of the Upload page
UploadInit ==
  /\ uploadedFile = NoFile
  /\ selectedSample = NoSample
  /\ uploadProgress = 0
  /\ isUploading = FALSE
  /\ uploadComplete = FALSE
  /\ uploadError = NoError
  /\ progressIntervals = {}
  /\ attempts = EmptyBag
  /\ attemptCount = 0
  /\ navTimeouts = 0

\* a suspended handleUpload call whose component is gone: its state setters
\* have no effect any more
Detached(a) == [a EXCEPT !.id = 0]

RECURSIVE DetachAll(_)
DetachAll(bag) ==
  IF bag = EmptyBag THEN EmptyBag
  ELSE LET a == CHOOSE x \in BagToSet(bag) : TRUE
       IN SetToBag({Detached(a)}) (+) DetachAll(bag (-) SetToBag({a}))

\* The Upload page is not mounted: its state does not exist (kept at the
\* useState initial values), its progress intervals act on nothing, and the
\* handleUpload calls it started go on without it.
UploadGone ==
  /\ uploadedFile' = NoFile
  /\ selectedSample' = NoSample
  /\ uploadProgress' = 0
  /\ isUploading' = FALSE
  /\ uploadComplete' = FALSE
  /\ uploadError' = NoError
  /\ progressIntervals' = {}
  /\ attemptCount' = 0
  /\ attempts' = DetachAll(attempts)

\* ------------------------------------------------- Connect page state
NoDevice == 0         \* selectedDevice === null

ConnectInit ==
  /\ connectionStatus = "idle"
  /\ selectedDevice = NoDevice
  /\ connectTimeouts = << >>
  /\ connectNavTimeouts = 0

\* The Connect page is not mounted: its state does not exist (kept at the
\* useState initial values) and the timeouts it started go on without it; an
\* entry of connectTimeouts is TRUE while the component that started it is
\* mounted.
ConnectGone ==
  /\ connectionStatus' = "idle"
  /\ selectedDevice' = NoDevice
  /\ connectTimeouts' = [i \in 1..Len(connectTimeouts) |-> FALSE]

\* the route is left: the state of the page that was mounted goes
LeaveConnect ==
  IF route = "connect" THEN ConnectGone
  ELSE UNCHANGED <<connectionStatus, selectedDevice, connectTimeouts>>

\* ----------------------------------------------------------------- actions
Mounted == route = "dashboard"

\* Random draws an initialization effect consumes (none in dataset mode).
SeedsFor(conn) == IF conn THEN 0..(HwSeeds - 1) ELSE {0}

\* The render that follows a handler, with its effects. conn and dataset are
\* the props of the render; eqs, info, dist, speed and playing are the state
\* the handler left; initDeps and datasetChanged tell which props changed.
\* First the effects of that render run (the playback effect still sees the
\* state of the render), then the state set by the init effect is rendered
\* and the playback effect runs again if runInfo.isComplete changed.
Render(conn, dataset, eqs, info, dist, speed, playing, initDeps, datasetChanged, seed) ==
  LET cur == [equipments |-> eqs, runInfo |-> info, anomalyDistribution |-> dist,
              featureImportance |-> featureImportance]
      loaded == IF initDeps THEN InitEffect(conn, dataset, seed, cur) ELSE cur
      first == PlaybackEffect([timer |-> timer, intervals |-> intervals],
                 datasetChanged \/ playing # isPlaying \/ speed # playbackSpeed
                   \/ info.isComplete # runInfo.isComplete,
                 dataset, playing, speed, info, eqs)
      second == PlaybackEffect(first,
                  loaded.runInfo.isComplete # info.isComplete,
                  dataset, playing, speed, loaded.runInfo, loaded.equipments)
  IN /\ equipments' = loaded.equipments
     /\ runInfo' = loaded.runInfo
     /\ anomalyDistribution' = loaded.anomalyDistribution
     /\ featureImportance' = loaded.featureImportance
     /\ playbackSpeed' = speed
     /\ isPlaying' = playing
     /\ timer' = second.timer
     /\ intervals' = second.intervals

\* The Dashboard is not mounted: its state does not exist (kept at the
\* useState initial values, which is what the next mount starts from).
DashboardGone ==
  /\ equipments' = << >>
  /\ runInfo' = InitRunInfo
  /\ anomalyDistribution' = InitDistribution
  /\ featureImportance' = << >>
  /\ playbackSpeed' = PointScale
  /\ isPlaying' = FALSE

\* The Router mounts the page of route to in place of the current one.
\* Leaving the Dashboard runs the playback effect's cleanup; entering it
\* renders the initial state and runs both effects. Leaving the Upload page
\* discards its state.
MountRoute(to) ==
  /\ to # route
  /\ route' = to
  /\ UNCHANGED <<isConnected, currentDataset>>
  /\ IF to = "dashboard"
     THEN \E seed \in SeedsFor(isConnected) :
            LET cur == [equipments |-> << >>, runInfo |-> InitRunInfo,
                        anomalyDistribution |-> InitDistribution,
                        featureImportance |-> << >>]
                loaded == InitEffect(isConnected, currentDataset, seed, cur)
                first == PlaybackEffect([timer |-> NoTimer, intervals |-> intervals],
                                        TRUE, currentDataset, FALSE, PointScale,
                                        InitRunInfo, << >>)
                second == PlaybackEffect(first,
                            loaded.runInfo.isComplete # InitRunInfo.isComplete,
                            currentDataset, FALSE, PointScale, loaded.runInfo,
                            loaded.equipments)
            IN /\ equipments' = loaded.equipments
               /\ runInfo' = loaded.runInfo
               /\ anomalyDistribution' = loaded.anomalyDistribution
               /\ featureImportance' = loaded.featureImportance
               /\ playbackSpeed' = PointScale
               /\ isPlaying' = FALSE
               /\ timer' = second.timer
               /\ intervals' = second.intervals
     ELSE IF Mounted
          THEN LET cleaned == UnmountCleanup([timer |-> timer, intervals |-> intervals])
               IN /\ DashboardGone
                  /\ timer' = cleaned.timer
                  /\ intervals' = cleaned.intervals
          ELSE UNCHANGED dashState

\* A Navbar link is clicked.
Navigate(to) ==
  /\ MountRoute(to)
  /\ IF route = "upload" THEN UploadGone /\ UNCHANGED navTimeouts
     ELSE UNCHANGED uploadState
  /\ LeaveConnect
  /\ UNCHANGED connectNavTimeouts

\* setCurrentDataset(dataset) of App: the dataset is a new object, so the
\* Dashboard effects that depend on it run if the Dashboard is mounted.
setCurrentDataset(d) ==
  /\ currentDataset' = d
  /\ UNCHANGED <<route, isConnected>>
  /\ IF Mounted
     THEN \E seed \in SeedsFor(isConnected) :
            Render(isConnected, d, equipments, runInfo, anomalyDistribution,
                   playbackSpeed, isPlaying, TRUE, TRUE, seed)
     ELSE UNCHANGED dashState

\* handleUpload reaches setCurrentDataset(dataset): the awaited prediction
\* may resolve on any page, the Upload page need not be mounted any more.
\* (The Upload page seen from the Dashboard: only the call it ends in.)
DatasetArrives(d) ==
  /\ setCurrentDataset(d)
  /\ UNCHANGED uploadState
  /\ UNCHANGED connectState

\* The 2 s timeout of connectToDevice succeeds: setIsConnected(true). The
\* timeout outlives the Connect page.
ConnectSucceeds ==
  /\ ~isConnected
  /\ isConnected' = TRUE
  /\ UNCHANGED <<route, currentDataset>>
  /\ UNCHANGED uploadState
  /\ IF Mounted
     THEN \E seed \in SeedsFor(TRUE) :
            Render(TRUE, currentDataset, equipments, runInfo, anomalyDistribution,
                   playbackSpeed, isPlaying, TRUE, FALSE, seed)
     ELSE UNCHANGED dashState
  /\ UNCHANGED connectState

\* handleDisconnect, a button of the Connect page: setIsConnected(false)
Disconnect ==
  /\ route = "connect"
  /\ isConnected
  /\ isConnected' = FALSE
  /\ UNCHANGED <<route, currentDataset>>
  /\ UNCHANGED dashState
  /\ UNCHANGED uploadState
  /\ UNCHANGED connectState

\* The play/pause and speed buttons are rendered only while !runInfo.isComplete.
\* (faulty variant: rendered in every state)
ControlsShownAlways == Mounted
ControlsShown == Mounted /\ ~runInfo.isComplete

togglePlayback ==
  /\ ControlsShown
  /\ UNCHANGED <<route, isConnected, currentDataset>>
  /\ UNCHANGED uploadState
  /\ Render(isConnected, currentDataset, equipments, runInfo, anomalyDistribution,
            playbackSpeed, ~isPlaying, FALSE, FALSE, 0)
  /\ UNCHANGED connectState

changePlaybackSpeed(speed) ==
  /\ ControlsShown
  /\ speed # playbackSpeed
  /\ UNCHANGED <<route, isConnected, currentDataset>>
  /\ UNCHANGED uploadState
  /\ Render(isConnected, currentDataset, equipments, runInfo, anomalyDistribution,
            speed, isPlaying, FALSE, FALSE, 0)
  /\ UNCHANGED connectState

\* runInfo and isPlaying as restartPlayback sets them
\* (faulty variant: processedPoints not reset)
RestartRunInfoKeepsProgress(prev) == [prev EXCEPT !.isComplete = FALSE]
RestartRunInfo(prev) == [prev EXCEPT !.processedPoints = 0, !.isComplete = FALSE]

\* The Replay Analysis button is rendered only while runInfo.isComplete.
restartPlayback ==
  /\ Mounted
  /\ runInfo.isComplete
  /\ UNCHANGED <<route, isConnected, currentDataset>>
  /\ UNCHANGED uploadState
  /\ Render(isConnected, currentDataset, equipments, RestartRunInfo(runInfo),
            anomalyDistribution, playbackSpeed, TRUE, FALSE, FALSE, 0)
  /\ UNCHANGED connectState

\* The interval callback fires: the setRunInfo updater, which also calls
\* updateEquipmentVisualization on the equipments the callback closed over
\* (it returns without setEquipments when that array is empty).
\* t is the interval of the table that fires.
TickOf(t) ==
  /\ Mounted
  /\ UNCHANGED <<route, isConnected, currentDataset>>
  /\ UNCHANGED uploadState
  /\ LET newProcessed == NewProcessed(runInfo, t.speed)
         eqs == IF Len(t.equipments) = 0 THEN equipments
                ELSE updateEquipmentVisualization(t.equipments, newProcessed,
                                                  runInfo.totalPoints)
     IN Render(isConnected, currentDataset, eqs, TickRunInfo(runInfo, t.speed),
               anomalyDistribution, playbackSpeed, isPlaying, FALSE, FALSE, 0)
  /\ UNCHANGED connectState

Tick == \E t \in BagToSet(intervals) : TickOf(t)

Init ==
  /\ route \in Routes
  /\ isConnected = FALSE
  /\ currentDataset = NullDataset
  /\ equipments = << >>
  /\ runInfo = InitRunInfo
  /\ anomalyDistribution = InitDistribution
  /\ playbackSpeed = PointScale
  /\ featureImportance = << >>
  /\ isPlaying = FALSE
  /\ timer = NoTimer
  /\ intervals = EmptyBag
  /\ UploadInit
  /\ ConnectInit

Next ==
  \/ \E to \in Routes : Navigate(to)
  \/ \E d \in Datasets : DatasetArrives(d)
  \/ ConnectSucceeds
  \/ Disconnect
  \/ togglePlayback
  \/ \E speed \in Speeds : changePlaybackSpeed(speed)
  \/ restartPlayback
  \/ Tick

Spec == Init /\ [][Next]_vars

\* A registered interval keeps firing: the callback runs every
\* 1000 / playbackSpeed ms for as long as the interval is in the table.
SpecLive == Init /\ [][Next]_vars /\ WF_vars(Tick)

\* ----------------------------------------------------- Upload page actions
Files == {"readings.csv"}
SampleIds == 1..MaxSampleId

\* messages of the errors handleUpload catches: a rejected fetch, and the
\* Error thrown for a response that is not ok
ErrorMessages == {"Failed to fetch", "Server responded with 500: Internal Server Error"}
\* message of the TypeError for a response body that is not an array
NotAnArray == "predictionData.filter is not a function"

\* simulateSampleDataPrediction: rows with id, timestamp, Type, the five
\* readings and a Prediction; seed selects the draws of Math.random().
SampleRecord(i, seed) ==
  << NumEntry("id", i), StrEntry("timestamp", "iso"),
     StrEntry("Type", <<"L", "M", "H">>[((i + seed) % 3) + 1]),
     NumEntry("Air temperature [K]", 290 + 10 * ((i + seed) % 2)),
     NumEntry("Process temperature [K]", 305 + 7 * ((i + seed) % 2)),
     NumEntry("Rotational speed [rpm]", 1000 + 20 * (i % 2)),
     NumEntry("Torque [Nm]", 20 + 30 * ((i + seed) % 2)),
     NumEntry("Tool wear [min]", 10 * (i % 2)),
     StrEntry("Prediction", IF (i + seed) % 3 = 0 THEN "Failure" ELSE "No Failure") >>

simulateSampleDataPrediction(sampleId, seed) ==
  [i \in 1..SampleRows |-> SampleRecord(i - 1, seed)]

\* the dataset object handleUpload builds from predictionData
\* (faulty variant: the failures are not counted)
UploadedDatasetUncounted(predictionData) ==
  [present |-> TRUE, records |-> Len(predictionData), anomaliesCount |-> 0,
   data |-> predictionData]

UploadedDataset(predictionData) ==
  [present |-> TRUE, records |-> Len(predictionData),
   anomaliesCount |-> CountWhere(predictionData, "Failure"),
   data |-> predictionData]

\* what the awaited prediction of attempt a can resolve to: a body of the
\* /predict endpoint for a file, the simulated rows for a sample
Predictions(a) ==
  IF a.kind = "file" THEN {MkDataset(0, 1).data, MkDataset(3, 1).data}
  ELSE {simulateSampleDataPrediction(a.sample, seed) : seed \in 0..(SampleSeeds - 1)}

OnUploadPage == route = "upload"

\* (faulty variant: the sample selection is not reset)
handleFileKeepsSample(file) ==
  /\ OnUploadPage
  /\ uploadedFile' = file
  /\ uploadError' = NoError
  /\ UNCHANGED <<selectedSample, uploadProgress, isUploading, uploadComplete,
                 progressIntervals, attempts, attemptCount, navTimeouts>>
  /\ UNCHANGED <<route, isConnected, currentDataset>>
  /\ UNCHANGED dashState
  /\ UNCHANGED connectState

handleFile(file) ==
  /\ OnUploadPage
  /\ uploadedFile' = file
  /\ selectedSample' = NoSample
  /\ uploadError' = NoError
  /\ UNCHANGED <<uploadProgress, isUploading, uploadComplete, progressIntervals,
                 attempts, attemptCount, navTimeouts>>
  /\ UNCHANGED <<route, isConnected, currentDataset>>
  /\ UNCHANGED dashState
  /\ UNCHANGED connectState

\* the remove button of the chosen file: setUploadedFile(null)
removeFile ==
  /\ OnUploadPage
  /\ uploadedFile # NoFile
  /\ uploadedFile' = NoFile
  /\ UNCHANGED <<selectedSample, uploadError, uploadProgress, isUploading,
                 uploadComplete, progressIntervals, attempts, attemptCount,
                 navTimeouts>>
  /\ UNCHANGED <<route, isConnected, currentDataset>>
  /\ UNCHANGED dashState
  /\ UNCHANGED connectState

handleSampleSelect(id) ==
  /\ OnUploadPage
  /\ selectedSample' = id
  /\ uploadedFile' = NoFile
  /\ uploadError' = NoError
  /\ UNCHANGED <<uploadProgress, isUploading, uploadComplete, progressIntervals,
                 attempts, attemptCount, navTimeouts>>
  /\ UNCHANGED <<route, isConnected, currentDataset>>
  /\ UNCHANGED dashState
  /\ UNCHANGED connectState

\* handleUpload up to its await: the Start Analysis button is rendered while
\* !isUploading and enabled when a file or a sample is chosen. The call
\* registers its progress interval and suspends with the file or sample of
\* the render it was made in.
handleUpload ==
  /\ OnUploadPage
  /\ ~isUploading
  /\ uploadedFile # NoFile \/ selectedSample # NoSample
  /\ attemptCount < MaxAttempts
  /\ BagCardinality(attempts) < MaxPending
  /\ isUploading' = TRUE
  /\ uploadProgress' = 0
  /\ uploadComplete' = FALSE
  /\ uploadError' = NoError
  /\ attemptCount' = attemptCount + 1
  /\ progressIntervals' = progressIntervals \cup {attemptCount + 1}
  /\ attempts' = attempts (+) SetToBag({[id |-> attemptCount + 1,
                     kind |-> IF uploadedFile # NoFile THEN "file" ELSE "sample",
                     sample |-> selectedSample]})
  /\ UNCHANGED <<uploadedFile, selectedSample, navTimeouts>>
  /\ UNCHANGED <<route, isConnected, currentDataset>>
  /\ UNCHANGED dashState
  /\ UNCHANGED connectState

\* The progress interval i fires: at 90 or more it clears itself and sets 90.
ProgressTick(i) ==
  /\ OnUploadPage
  /\ i \in progressIntervals
  /\ IF uploadProgress >= ProgressCap
     THEN /\ uploadProgress' = ProgressCap
          /\ progressIntervals' = progressIntervals \ {i}
     ELSE /\ uploadProgress' = uploadProgress + ProgressStep
          /\ UNCHANGED progressIntervals
  /\ UNCHANGED <<uploadedFile, selectedSample, isUploading, uploadComplete,
                 uploadError, attempts, attemptCount, navTimeouts>>
  /\ UNCHANGED <<route, isConnected, currentDataset>>
  /\ UNCHANGED dashState
  /\ UNCHANGED connectState

\* the state setters of the success path (they act only on a mounted page)
UploadDone(a) ==
  IF a.id = 0
  THEN UNCHANGED <<uploadProgress, uploadComplete, progressIntervals>>
  ELSE /\ progressIntervals' = progressIntervals \ {a.id}
       /\ uploadProgress' = ProgressDone
       /\ uploadComplete' = TRUE

\* the catch block: setUploadError(message), setIsUploading(false)
\* (faulty variant: the request is issued again)
CatchRetrying(a, message) ==
  /\ attempts' = attempts
  /\ IF a.id = 0 THEN UNCHANGED <<uploadError, isUploading>>
     ELSE uploadError' = message /\ isUploading' = FALSE
Catch(a, message) ==
  /\ attempts' = attempts (-) SetToBag({a})
  /\ IF a.id = 0 THEN UNCHANGED <<uploadError, isUploading>>
     ELSE uploadError' = message /\ isUploading' = FALSE

\* The awaited prediction of attempt a resolves: the rest of the try block.
UploadSucceeds(a, predictionData) ==
  /\ BagIn(a, attempts)
  /\ predictionData \in Predictions(a)
  /\ navTimeouts < MaxNavTimeouts
  /\ attempts' = attempts (-) SetToBag({a})
  /\ UploadDone(a)
  /\ setCurrentDataset(UploadedDataset(predictionData))
  /\ navTimeouts' = navTimeouts + 1
  /\ UNCHANGED <<uploadedFile, selectedSample, isUploading, uploadError, attemptCount>>
  /\ UNCHANGED connectState

\* The prediction call of attempt a fails: fetch rejects, or the response is
\* not ok and the handler throws. Control goes to the catch block.
UploadFails(a, message) ==
  /\ BagIn(a, attempts)
  /\ a.kind = "file"
  /\ Catch(a, message)
  /\ UNCHANGED <<uploadedFile, selectedSample, uploadProgress, uploadComplete,
                 progressIntervals, attemptCount, navTimeouts>>
  /\ UNCHANGED <<route, isConnected, currentDataset>>
  /\ UNCHANGED dashState
  /\ UNCHANGED connectState

\* The response is ok but its body is not an array: the success setters run,
\* then predictionData.filter throws before setCurrentDataset.
UploadMalformed(a) ==
  /\ BagIn(a, attempts)
  /\ a.kind = "file"
  /\ UploadDone(a)
  /\ Catch(a, NotAnArray)
  /\ UNCHANGED <<uploadedFile, selectedSample, attemptCount, navTimeouts>>
  /\ UNCHANGED <<route, isConnected, currentDataset>>
  /\ UNCHANGED dashState
  /\ UNCHANGED connectState

\* The 1.5 s timeout of the success path fires: navigate('/dashboard').
NavTimeoutFires ==
  /\ navTimeouts > 0
  /\ navTimeouts' = navTimeouts - 1
  /\ UNCHANGED connectNavTimeouts
  /\ IF Mounted
     THEN UNCHANGED <<route, isConnected, currentDataset, uploadedFile,
                      selectedSample, uploadProgress, isUploading, uploadComplete,
                      uploadError, progressIntervals, attempts, attemptCount>>
          /\ UNCHANGED dashState
          /\ UNCHANGED <<connectionStatus, selectedDevice, connectTimeouts>>
     ELSE /\ MountRoute("dashboard")
          /\ LeaveConnect
          /\ IF OnUploadPage THEN UploadGone
             ELSE UNCHANGED <<uploadedFile, selectedSample, uploadProgress,
                              isUploading, uploadComplete, uploadError,
                              progressIntervals, attempts, attemptCount>>

\* The application seen from the Upload page: the page's handlers, the calls
\* it started, and the Navbar.
NextUpload ==
  \/ \E to \in {"upload", "dashboard"} : Navigate(to)
  \/ \E file \in Files : handleFile(file)
  \/ removeFile
  \/ \E id \in SampleIds : handleSampleSelect(id)
  \/ handleUpload
  \/ \E i \in progressIntervals : ProgressTick(i)
  \/ \E a \in BagToSet(attempts) : \E predictionData \in Predictions(a) :
        UploadSucceeds(a, predictionData)
  \/ \E a \in BagToSet(attempts) : \E message \in ErrorMessages :
        UploadFails(a, message)
  \/ \E a \in BagToSet(attempts) : UploadMalformed(a)
  \/ NavTimeoutFires

InitUpload == Init /\ route = "upload"

SpecUpload == InitUpload /\ [][NextUpload]_vars

\* ------------------------------------------------- Connect page actions
Devices == 1..MaxDevices
OnConnectPage == route = "connect"

\* setIsConnected(value) of App: the Dashboard, if mounted, re-renders and
\* its init effect runs when the value changes.
setIsConnected(value) ==
  /\ isConnected' = value
  /\ UNCHANGED <<route, currentDataset>>
  /\ IF Mounted /\ value # isConnected
     THEN \E seed \in SeedsFor(value) :
            Render(value, currentDataset, equipments, runInfo,
                   anomalyDistribution, playbackSpeed, isPlaying, TRUE, FALSE,
                   seed)
     ELSE UNCHANGED dashState

\* a device of the list is clicked
handleSelectDevice(device) ==
  /\ OnConnectPage
  /\ selectedDevice' = device
  /\ UNCHANGED <<connectionStatus, connectTimeouts, connectNavTimeouts>>
  /\ UNCHANGED <<route, isConnected, currentDataset>>
  /\ UNCHANGED dashState
  /\ UNCHANGED uploadState

\* The connection button is clicked while a device is selected and the status
\* is not 'connected': the status becomes 'connecting' and a 2 s timeout is
\* started. The button is not disabled while the status is 'connecting'.
connectToDevice ==
  /\ OnConnectPage
  /\ selectedDevice # NoDevice
  /\ connectionStatus # "connected"
  /\ Len(connectTimeouts) < MaxConnectPending
  /\ connectionStatus' = "connecting"
  /\ connectTimeouts' = Append(connectTimeouts, TRUE)
  /\ UNCHANGED <<selectedDevice, connectNavTimeouts>>
  /\ UNCHANGED <<route, isConnected, currentDataset>>
  /\ UNCHANGED dashState
  /\ UNCHANGED uploadState

\* The connection button is clicked while the status is 'connected'.
handleDisconnect ==
  /\ OnConnectPage
  /\ selectedDevice # NoDevice
  /\ connectionStatus = "connected"
  /\ setIsConnected(FALSE)
  /\ connectionStatus' = "idle"
  /\ selectedDevice' = NoDevice
  /\ UNCHANGED <<connectTimeouts, connectNavTimeouts>>
  /\ UNCHANGED uploadState

\* the status after a failed attempt; the setter of a component that is gone
\* has no effect
FailedStatus(attached) == IF attached THEN "failed" ELSE connectionStatus

\* The oldest 2 s timeout fires (equal delays fire in the order they were
\* started); isSuccessful is Math.random() < 0.9.
ConnectTimeoutFires(isSuccessful) ==
  /\ connectTimeouts # << >>
  /\ connectTimeouts' = Tail(connectTimeouts)
  /\ UNCHANGED selectedDevice
  /\ UNCHANGED uploadState
  /\ IF isSuccessful
     THEN /\ connectNavTimeouts < MaxConnectNav
          /\ connectionStatus' = (IF Head(connectTimeouts) THEN "connected"
                                  ELSE connectionStatus)
          /\ setIsConnected(TRUE)
          /\ connectNavTimeouts' = connectNavTimeouts + 1
     ELSE /\ connectionStatus' = FailedStatus(Head(connectTimeouts))
          /\ UNCHANGED <<route, isConnected, currentDataset, connectNavTimeouts>>
          /\ UNCHANGED dashState

\* The 1.5 s timeout of a successful connection fires:
\* navigate('/dashboard').
ConnectNavFires ==
  /\ connectNavTimeouts > 0
  /\ connectNavTimeouts' = connectNavTimeouts - 1
  /\ IF Mounted
     THEN /\ UNCHANGED <<route, isConnected, currentDataset>>
          /\ UNCHANGED dashState
          /\ UNCHANGED uploadState
          /\ UNCHANGED <<connectionStatus, selectedDevice, connectTimeouts>>
     ELSE /\ MountRoute("dashboard")
          /\ LeaveConnect
          /\ IF OnUploadPage THEN UploadGone /\ UNCHANGED navTimeouts
             ELSE UNCHANGED uploadState

\* The application seen from the Connect page: the page's handlers, the
\* timeouts it started, and the Navbar.
NextConnect ==
  \/ \E to \in {"connect", "dashboard"} : Navigate(to)
  \/ \E device \in Devices : handleSelectDevice(device)
  \/ connectToDevice
  \/ handleDisconnect
  \/ \E isSuccessful \in BOOLEAN : ConnectTimeoutFires(isSuccessful)
  \/ ConnectNavFires

InitConnect == Init /\ route = "connect"

SpecConnect == InitConnect /\ [][NextConnect]_vars

\* ------------------------------------------- feature-importance runs
\* A prediction record with a string column besides Type and three numeric
\* columns; wear mirrors temp, so that two features can score the same.
FeatureRow(pred, temp, torque) ==
  << StrEntry("ProductID", "M14860"), StrEntry("Type", "M"),
     NumEntry("temp", temp), NumEntry("torque", torque),
     NumEntry("wear", 30 - temp), StrEntry("Prediction", pred) >>

FeatureRows ==
  { FeatureRow(pred, temp, torque) :
      pred \in {"No Failure", "Failure"}, temp \in {10, 20}, torque \in {1, 4} }

\* one feature temp: normal values 10, 10 and failure values 20, 20
ScenarioDataset ==
  [present |-> TRUE, records |-> 4, anomaliesCount |-> 2,
   data |-> << << NumEntry("temp", 10), StrEntry("Prediction", "No Failure") >>,
               << NumEntry("temp", 10), StrEntry("Prediction", "No Failure") >>,
               << NumEntry("temp", 20), StrEntry("Prediction", "Failure") >>,
               << NumEntry("temp", 20), StrEntry("Prediction", "Failure") >> >>]

FeatureDatasets ==
  { [present |-> TRUE, records |-> Len(data),
     anomaliesCount |-> CountWhere(data, "Failure"), data |-> data] :
      data \in UNION { [1..n -> FeatureRows] : n \in 1..MaxFeatureRows } }
  \cup { ScenarioDataset, MkDataset(2, 4), MkDataset(4, 3) }

\* An upload has delivered a dataset and the Dashboard has not been opened.
InitFI ==
  /\ route = "upload"
  /\ isConnected = FALSE
  /\ currentDataset \in FeatureDatasets
  /\ equipments = << >>
  /\ runInfo = InitRunInfo
  /\ anomalyDistribution = InitDistribution
  /\ playbackSpeed = PointScale
  /\ featureImportance = << >>
  /\ isPlaying = FALSE
  /\ timer = NoTimer
  /\ intervals = EmptyBag
  /\ UploadInit
  /\ ConnectInit

\* The Dashboard is opened, which loads the dataset, and left again.
NextFI == \E to \in {"dashboard", "upload"} : Navigate(to)

SpecFI == InitFI /\ [][NextFI]_vars

\* ------------------------------------------------------------------ claims
HwPoints == Pt(HwTotalPoints)

\* C1: in every reachable Dashboard state 0 <= processedPoints <= totalPoints
\* and isComplete is true exactly when processedPoints = totalPoints.
C1_RunInfoInvariant ==
  Mounted =>
    /\ 0 <= runInfo.processedPoints
    /\ runInfo.processedPoints <= runInfo.totalPoints
    /\ runInfo.isComplete <=> (runInfo.processedPoints = runInfo.totalPoints)

\* C2: once processedPoints has reached totalPoints (isComplete), no playback
\* interval is registered, and a tick applied at any speed would leave
\* RunInfo as it is.
C2_NoTickAfterComplete ==
  runInfo.isComplete =>
    /\ ~timer.on
    /\ \A speed \in Speeds : TickRunInfo(runInfo, speed) = runInfo

\* A complete run that ticks have produced: the simulated pump no longer
\* shows the literal 67 the load gave it.
C2_Witness ==
  /\ Mounted /\ isConnected /\ runInfo.isComplete /\ isPlaying
  /\ runInfo.processedPoints = HwPoints
  /\ equipments[1].currentValue # 67

\* Steps that stay within one playback run: no restart, no load, no teardown.
SameRunStep ==
  togglePlayback \/ Tick \/ \E speed \in Speeds : changePlaybackSpeed(speed)

\* C3: within one playback run processedPoints never decreases, whatever
\* pauses and speed changes come between the ticks; each tick starts from
\* the RunInfo the previous step left and moves it forward while the run is
\* incomplete.
C3_TicksMonotone ==
  [][ /\ SameRunStep => runInfo'.processedPoints >= runInfo.processedPoints
      /\ (Tick /\ runInfo.processedPoints < runInfo.totalPoints)
           => runInfo'.processedPoints > runInfo.processedPoints ]_vars

\* A paused run at 17.5 of 100 points: ticks at different speeds and a pause.
C3_Witness ==
  /\ Mounted /\ ~isPlaying /\ ~runInfo.isComplete
  /\ runInfo.totalPoints = HwPoints
  /\ runInfo.processedPoints = 35

RECURSIVE TickN(_, _, _)
\* n ticks of one interval applied in a row
TickN(info, speed, n) ==
  IF n = 0 THEN info ELSE TickN(TickRunInfo(info, speed), speed, n - 1)

\* totalPoints = 100, playbackSpeed = 2, from 0: one tick gives 10, ten give
\* 100 and isComplete.
C4_Scenario ==
  LET start == [totalPoints |-> 200, processedPoints |-> 0, anomaliesFound |-> 3,
                isComplete |-> FALSE]
  IN /\ TickN(start, 4, 1).processedPoints = 20
     /\ ~TickN(start, 4, 1).isComplete
     /\ ~TickN(start, 4, 9).isComplete
     /\ TickN(start, 4, 10).processedPoints = 200
     /\ TickN(start, 4, 10).isComplete

\* C4: a tick sets processedPoints to min(processedPoints + 5 * playbackSpeed,
\* totalPoints), with the playbackSpeed of the interval's registration (which
\* is the current one), and isComplete to (new processedPoints >= totalPoints).
C4_TickArithmetic ==
  [][ Tick =>
        LET sum == runInfo.processedPoints + 5 * timer.speed
        IN /\ timer.speed = playbackSpeed
           /\ runInfo'.processedPoints =
                (IF sum <= runInfo.totalPoints THEN sum ELSE runInfo.totalPoints)
           /\ runInfo'.isComplete = (runInfo'.processedPoints >= runInfo.totalPoints)
           /\ runInfo'.totalPoints = runInfo.totalPoints
           /\ runInfo'.anomaliesFound = runInfo.anomaliesFound
           /\ C4_Scenario ]_vars

\* One tick at speed 2 into a replay of 100 points.
C4_Witness ==
  /\ Mounted /\ timer.on /\ timer.speed = 4
  /\ runInfo.totalPoints = HwPoints
  /\ runInfo.processedPoints = 20

\* C5: after a pause, and after the Dashboard is torn down, no playback
\* interval is registered, so no tick can fire.
C5_CancelledOnPauseOrTeardown ==
  (~Mounted \/ ~isPlaying) => (~timer.on /\ ~ENABLED Tick)

\* Paused in the middle of a run that ticks had advanced.
C5_Witness ==
  /\ Mounted /\ ~isPlaying /\ currentDataset.present
  /\ 0 < runInfo.processedPoints
  /\ runInfo.processedPoints < runInfo.totalPoints

\* C6 as stated: a tick that makes isComplete true leaves isPlaying false.
C6_PausedFlagOnComplete ==
  [][ (Tick /\ runInfo'.isComplete) => ~isPlaying' ]_vars

\* C6 amended: a tick that makes isComplete true ends the tick loop (no
\* interval stays registered) while the isPlaying flag keeps its value, true.
C6_LoopEndsOnComplete ==
  [][ (Tick /\ runInfo'.isComplete) => (~timer'.on /\ isPlaying') ]_vars

\* A dataset replay that ticks completed (a channel shows a status only
\* a tick gives).
C6_Witness ==
  /\ Mounted /\ ~isConnected /\ runInfo.isComplete /\ isPlaying /\ ~timer.on
  /\ \E x \in 1..Len(equipments) : equipments[x].status = "warning"

\* C7: the controller starts Paused; togglePlayback is only available while
\* isComplete is false; from a complete state only restartPlayback sets
\* isPlaying or registers the interval.
C7_StartsPausedToggleGuarded ==
  /\ ~isPlaying /\ ~timer.on
  /\ [][ /\ (~Mounted /\ Mounted') => (~isPlaying' /\ ~timer'.on)
         /\ togglePlayback => ~runInfo.isComplete
         /\ (Mounted /\ Mounted' /\ runInfo.isComplete
               /\ ((isPlaying' /\ ~isPlaying) \/ (timer'.on /\ ~timer.on)))
              => restartPlayback ]_vars

\* Running again after a completed dataset replay.
C7_Witness ==
  /\ Mounted /\ ~isConnected /\ isPlaying /\ timer.on
  /\ runInfo.processedPoints = 0 /\ runInfo.totalPoints > 0

\* C8: restartPlayback sets processedPoints to 0, isComplete to false and
\* isPlaying to true; totalPoints, anomaliesFound, playbackSpeed and the
\* channels (ids, samples) stay as they were.
C8_RestartFrame ==
  [][ restartPlayback =>
        /\ runInfo'.processedPoints = 0
        /\ ~runInfo'.isComplete
        /\ isPlaying'
        /\ runInfo'.totalPoints = runInfo.totalPoints
        /\ runInfo'.anomaliesFound = runInfo.anomaliesFound
        /\ playbackSpeed' = playbackSpeed
        /\ Len(equipments') = Len(equipments)
        /\ \A x \in 1..Len(equipments) :
             /\ equipments'[x].id = equipments[x].id
             /\ equipments'[x].data = equipments[x].data ]_vars

\* Restarted on simulated hardware data with no dataset.
C8_Witness ==
  /\ Mounted /\ isConnected /\ ~currentDataset.present
  /\ isPlaying /\ ~runInfo.isComplete
  /\ runInfo.processedPoints = 0 /\ runInfo.totalPoints = HwPoints
  /\ Len(equipments) = 3

\* C9 as stated: every sample's isAnomaly equals
\* (value < normalRange.min or value > normalRange.max).
C9_IsAnomalyIsRangeCheck ==
  \A x \in 1..Len(equipments) : \A i \in 1..Len(equipments[x].data) :
    LET point == equipments[x].data[i]
    IN point.isAnomaly = OutOfRange(point.value, point.normalRange)

IsHardwareChannel(equipment) == equipment.id[1] # "feature"

\* The zero-based sample positions the simulation marks as anomalies.
HwAnomalyPositions(equipment) ==
  IF equipment.id[1] = "pump" THEN {17}
  ELSE IF equipment.id[1] = "motor" THEN {18, 19} ELSE {}

\* The samples of the channels are those of the first records of dataset d,
\* flagged by the record's label.
FlaggedByLabelOf(d) ==
  /\ Len(d.data) > 0
  /\ \A x \in 1..Len(equipments) :
       /\ Len(equipments[x].data) = Min(Len(d.data), 20)
       /\ \A i \in 1..Len(equipments[x].data) :
            LET point == equipments[x].data[i]
            IN /\ point.value = Get(d.data[i], equipments[x].name).n
               /\ point.isAnomaly = (Get(d.data[i], "Prediction").s = "Failure")

\* C9 amended: the samples of a channel made from a dataset carry the label of
\* their record, isAnomaly = (Prediction = "Failure"), whatever the normal
\* range; the samples of a simulated hardware channel are flagged by position
\* (17 for the pump, 18 and 19 for the motor, none for the flow).
C9_IsAnomalyIsLabel ==
  /\ \A x \in 1..Len(equipments) :
       IsHardwareChannel(equipments[x]) =>
         \A i \in 1..Len(equipments[x].data) :
           equipments[x].data[i].isAnomaly = ((i - 1) \in HwAnomalyPositions(equipments[x]))
  /\ (equipments # << >> /\ ~IsHardwareChannel(equipments[1]))
       => \E d \in Datasets : FlaggedByLabelOf(d)
  /\ (Mounted /\ ~isConnected /\ Len(currentDataset.data) > 0)
       => FlaggedByLabelOf(currentDataset)

\* Channels of a dataset in which a labelled failure lies inside the normal
\* range and an unlabelled record outside it.
C9_Witness ==
  /\ Mounted /\ ~isConnected /\ Len(equipments) > 0
  /\ \E i \in 1..Len(equipments[1].data) :
       LET point == equipments[1].data[i]
       IN point.isAnomaly /\ ~OutOfRange(point.value, point.normalRange)
  /\ \E i \in 1..Len(equipments[1].data) :
       LET point == equipments[1].data[i]
       IN ~point.isAnomaly /\ OutOfRange(point.value, point.normalRange)

\* C10 as stated: a channel's status is 'anomaly' when its current value is
\* outside the normal range and 'normal' otherwise.
C10_StatusIsRangeCheck ==
  \A x \in 1..Len(equipments) :
    equipments[x].status =
      (IF OutOfRange(equipments[x].currentValue, equipments[x].normalRange)
       THEN "anomaly" ELSE "normal")

\* A step in which the initialization effect loads channels.
LoadStep ==
  /\ Mounted'
  /\ Navigate("dashboard") \/ ConnectSucceeds \/ \E d \in Datasets : DatasetArrives(d)
  /\ isConnected' \/ Len(currentDataset'.data) > 0

\* C10 amended: at a dataset load the status is 'anomaly' when the last loaded
\* sample is labelled an anomaly and 'normal' otherwise (the simulated channels
\* get the fixed statuses warning, anomaly, normal); on a tick it is 'anomaly'
\* when the sample at the visible position is labelled an anomaly, otherwise
\* 'warning' when that sample's value is outside the normal range, otherwise
\* 'normal'.
C10_StatusIsLabelThenRange ==
  [][ /\ LoadStep =>
           IF isConnected'
           THEN [x \in 1..Len(equipments') |-> equipments'[x].status]
                  = <<"warning", "anomaly", "normal">>
           ELSE \A x \in 1..Len(equipments') :
                  LET last == equipments'[x].data[Len(equipments'[x].data)]
                  IN /\ equipments'[x].currentValue = last.value
                     /\ equipments'[x].status =
                          (IF last.isAnomaly THEN "anomaly" ELSE "normal")
      /\ (Tick /\ equipments # << >>) =>
           \A x \in 1..Len(equipments') :
             LET length == Len(equipments'[x].data)
                 shown == (length * runInfo'.processedPoints) \div runInfo'.totalPoints
                 point == equipments'[x].data[IF shown < 1 THEN 1 ELSE shown]
             IN /\ equipments'[x].currentValue = point.value
                /\ equipments'[x].status =
                     (IF point.isAnomaly THEN "anomaly"
                      ELSE IF OutOfRange(point.value, equipments'[x].normalRange)
                           THEN "warning" ELSE "normal") ]_vars

\* A running dataset replay in which a tick marked a channel 'warning': its
\* visible sample is outside the normal range and not labelled a failure.
C10_Witness ==
  /\ Mounted /\ ~isConnected /\ ~runInfo.isComplete /\ timer.on
  /\ runInfo.processedPoints > 0
  /\ \E x \in 1..Len(equipments) :
       /\ equipments[x].status = "warning"
       /\ OutOfRange(equipments[x].currentValue, equipments[x].normalRange)

\* C11 as stated: no channel of a reachable Dashboard state has status
\* 'warning'.
C11_NoWarningStatus ==
  \A x \in 1..Len(equipments) : equipments[x].status # "warning"

\* C11 amended: a load from a dataset emits only 'normal' and 'anomaly'; the
\* hardware simulation and the ticks also emit 'warning', and a channel has
\* status 'warning' only while its current value is outside its normal range.
C11_WarningOnlyOutOfRange ==
  /\ [] (\A x \in 1..Len(equipments) :
           /\ equipments[x].status \in {"normal", "warning", "anomaly"}
           /\ equipments[x].status = "warning" =>
                OutOfRange(equipments[x].currentValue,
                           equipments[x].normalRange))
  /\ [][ (LoadStep /\ ~isConnected') =>
           \A x \in 1..Len(equipments') :
             equipments'[x].status \in {"normal", "anomaly"} ]_vars

\* The simulated pump as the hardware load leaves it: 'warning' at 67, above
\* its normal range 55..65.
C11_Witness ==
  /\ Mounted /\ isConnected /\ runInfo.isComplete /\ ~isPlaying
  /\ Len(equipments) = 3
  /\ equipments[1].id = <<"pump", 1>>
  /\ equipments[1].status = "warning"
  /\ equipments[1].currentValue = 67

\* The Dashboard shows a dataset with records: it was loaded from it.
DatasetLoaded == Mounted /\ ~isConnected /\ Len(currentDataset.data) > 0

\* C12: for every loaded dataset each feature-importance value is in [0,1];
\* the values sum to 1 (up to one unit of rounding per entry) when some
\* feature has a nonzero raw score, and are all 0 when every raw score is 0.
C12_NormalizedSumsToOne ==
  DatasetLoaded =>
    LET raw == Importances(currentDataset)
        total == SumSeq([x \in 1..Len(featureImportance) |->
                           featureImportance[x].value], 1)
    IN /\ Len(featureImportance) = Len(raw)
       /\ \A x \in 1..Len(featureImportance) :
            featureImportance[x].value \in 0..FixScale
       /\ IF \E x \in 1..Len(raw) : raw[x].value # 0
          THEN total <= FixScale /\ total > FixScale - Len(featureImportance)
          ELSE \A x \in 1..Len(featureImportance) : featureImportance[x].value = 0

\* A loaded dataset in which two features have different nonzero importances.
C12_Witness ==
  /\ DatasetLoaded
  /\ \E x, y \in 1..Len(featureImportance) :
       /\ featureImportance[x].value > featureImportance[y].value
       /\ featureImportance[y].value > 0

\* C13: for every non-empty dataset the feature-importance list has exactly
\* one entry for each key of the first record whose value is a number and
\* whose name is neither Prediction nor Type, and no other entry (none for a
\* string field).
C13_OneEntryPerNumericKey ==
  DatasetLoaded =>
    LET first == currentDataset.data[1]
        IsFeature(j) == /\ first[j].t = "number"
                        /\ first[j].k \notin {"Prediction", "Type"}
    IN /\ \A j \in 1..Len(first) :
            IsFeature(j) =>
              Cardinality({x \in 1..Len(featureImportance) :
                             featureImportance[x].name = first[j].k}) = 1
       /\ \A x \in 1..Len(featureImportance) :
            \E j \in 1..Len(first) :
              IsFeature(j) /\ first[j].k = featureImportance[x].name

\* A loaded dataset whose first record has two string columns besides the
\* label and three numeric ones.
C13_Witness ==
  /\ DatasetLoaded
  /\ Get(currentDataset.data[1], "ProductID").t = "string"
  /\ Get(currentDataset.data[1], "Type").t = "string"
  /\ {featureImportance[x].name : x \in 1..Len(featureImportance)}
       = {"temp", "torque", "wear"}

\* C14: the feature-importance list is in non-increasing order of value.
C14_SortedDescending ==
  \A x \in 1..(Len(featureImportance) - 1) :
    featureImportance[x].value >= featureImportance[x + 1].value

\* A loaded list which the sort had to reorder.
C14_Witness ==
  /\ DatasetLoaded
  /\ featureImportance # Normalize(Importances(currentDataset))
  /\ featureImportance[1].value > featureImportance[Len(featureImportance)].value

\* every value of the group is the same
IsConstant(values) == \A i, j \in 1..Len(values) : values[i] = values[j]
\* the mean of a constant group (0 for an empty one)
Level(values) == IF Len(values) = 0 THEN 0 ELSE values[1]

\* C15: when the variances of the normal and the failure group are both zero
\* (each group is constant), the raw score of the feature is the absolute
\* difference of the group means; for the single feature temp with normal
\* values 10, 10 and failure values 20, 20 the raw score is 10 and the
\* normalized importance is 1.
C15_ZeroVarianceFallback ==
  Len(currentDataset.data) > 0 =>
    LET raw == Importances(currentDataset)
    IN /\ \A x \in 1..Len(raw) :
            LET normalValues == GroupValues(currentDataset, raw[x].name, "No Failure")
                anomalyValues == GroupValues(currentDataset, raw[x].name, "Failure")
            IN (IsConstant(normalValues) /\ IsConstant(anomalyValues)) =>
                 raw[x].value = Abs(Level(normalValues) - Level(anomalyValues)) * FixScale
       /\ currentDataset = ScenarioDataset =>
            /\ raw = << [name |-> "temp", value |-> 10 * FixScale] >>
            /\ Mounted => featureImportance = << [name |-> "temp", value |-> FixScale] >>

\* The scenario dataset, loaded.
C15_Witness ==
  /\ Mounted /\ ~isConnected /\ currentDataset = ScenarioDataset
  /\ runInfo.isComplete
  /\ featureImportance = << [name |-> "temp", value |-> FixScale] >>

\* C16: when the dataset the Dashboard has loaded arrives again, with no
\* playback since the load, the second load leaves the feature-importance
\* list (entries and order) and RunInfo as the first load left them.
C16_ReloadIdempotent ==
  [][ \A d \in Datasets :
        ( /\ Mounted /\ ~isConnected /\ currentDataset = d
          /\ ~isPlaying /\ (runInfo.isComplete \/ Len(d.data) = 0)
          /\ DatasetArrives(d) )
        => /\ featureImportance' = featureImportance
           /\ runInfo' = runInfo ]_vars

\* A dataset with several features and anomalies, loaded and not replayed.
C16_Witness ==
  /\ DatasetLoaded /\ ~isPlaying /\ runInfo.isComplete
  /\ runInfo.processedPoints = runInfo.totalPoints
  /\ runInfo.anomaliesFound > 0
  /\ Len(featureImportance) >= 2
  /\ currentDataset \in Datasets

\* The Dashboard is opened on a dataset, or a dataset arrives in a Dashboard
\* opened without one and not touched since.
FreshLoadStep ==
  \/ Navigate("dashboard") /\ ~isConnected /\ currentDataset.present
  \/ /\ Mounted /\ ~isConnected /\ ~currentDataset.present
     /\ runInfo = InitRunInfo /\ ~isPlaying /\ playbackSpeed = PointScale
     /\ \E d \in Datasets : DatasetArrives(d)

\* C17 as stated: loading a dataset of zero records into a freshly opened
\* Dashboard results in an empty feature-importance list and RunInfo
\* {totalPoints: 0, processedPoints: 0, anomaliesFound: 0, isComplete: true}.
C17_EmptyDatasetComplete ==
  [][ (FreshLoadStep /\ Len(currentDataset'.data) = 0) =>
        /\ featureImportance' = << >>
        /\ runInfo' = [totalPoints |-> 0, processedPoints |-> 0,
                       anomaliesFound |-> 0, isComplete |-> TRUE] ]_vars

\* the first record has no number-valued key besides Prediction and Type
NoNumericColumns(dataset) ==
  /\ Len(dataset.data) > 0
  /\ \A j \in 1..Len(dataset.data[1]) :
       \/ dataset.data[1][j].t # "number"
       \/ dataset.data[1][j].k \in {"Prediction", "Type"}

\* C18 as stated: loading a non-empty dataset whose first record has no
\* numeric feature column produces an empty feature-importance list, no
\* channels, and totalPoints, processedPoints and anomaliesFound all 0.
C18_NoFeaturesZeroFilled ==
  [][ (FreshLoadStep /\ NoNumericColumns(currentDataset')) =>
        /\ featureImportance' = << >>
        /\ equipments' = << >>
        /\ runInfo'.totalPoints = 0
        /\ runInfo'.processedPoints = 0
        /\ runInfo'.anomaliesFound = 0 ]_vars

\* C20: in every reachable state at most one playback interval is live, the
\* one whose handle the playback effect holds; a step that registers a new
\* interval leaves it the only one (the previous one was cleared first).
C20_AtMostOneTimer ==
  /\ [] (BagCardinality(intervals) <= 1)
  /\ [] (intervals = (IF timer.on THEN SetToBag({timer}) ELSE EmptyBag))
  /\ [][ (timer'.on /\ timer' # timer) => intervals' = SetToBag({timer'}) ]_vars

\* A replay running at a speed chosen after it had started: the interval of
\* the former speed was replaced.
C20_Witness ==
  /\ Mounted /\ isPlaying /\ ~runInfo.isComplete
  /\ runInfo.processedPoints > 0
  /\ playbackSpeed # PointScale
  /\ timer.on /\ timer.speed = playbackSpeed
  /\ BagCardinality(intervals) = 1

\* the suspended handleUpload calls of the mounted Upload page
Attached == {a \in BagToSet(attempts) : a.id # 0}

\* C19: a step in which the prediction call of an attempt fails ends that
\* attempt and starts no request; it calls neither setCurrentDataset nor
\* navigate and schedules no navigation; on the page that made the attempt it
\* records the one error message and clears isUploading. While an error is
\* shown the page is not uploading and none of its attempts is pending.
C19_FailureIsFinal ==
  /\ [] (uploadError # NoError => (~isUploading /\ Attached = {}))
  /\ [][ \A a \in BagToSet(attempts) : \A message \in ErrorMessages :
          UploadFails(a, message) =>
            /\ attempts' (+) SetToBag({a}) = attempts
            /\ currentDataset' = currentDataset
            /\ navTimeouts' = navTimeouts
            /\ route' = route
            /\ UNCHANGED dashState
            /\ a.id # 0 => /\ uploadError' = message
                           /\ ~isUploading'
                           /\ ~uploadComplete' ]_vars

\* The Upload page after a failed attempt: the error is shown, the page is
\* not uploading, the progress interval of the attempt is still live, no
\* dataset was set and no navigation is pending.
C19_Witness ==
  /\ OnUploadPage /\ uploadError \in ErrorMessages
  /\ ~isUploading /\ ~uploadComplete
  /\ uploadedFile # NoFile
  /\ attemptCount = 1 /\ progressIntervals = {1}
  /\ attempts = EmptyBag
  /\ ~currentDataset.present /\ navTimeouts = 0

\* C21: a tick leaves the channels, and of each channel the sample sequence,
\* the normal range, the id and the name as they were, and sets currentValue
\* to the value of the sample at the 1-based position
\* max(1, floor(sampleCount * processedPoints / totalPoints)) of the new
\* processedPoints.
C21_TickMovesPositionOnly ==
  [][ (Tick /\ equipments # << >>) =>
        /\ Len(equipments') = Len(equipments)
        /\ \A x \in 1..Len(equipments) :
             LET before == equipments[x]
                 after == equipments'[x]
                 floor == (Len(before.data) * runInfo'.processedPoints)
                            \div runInfo'.totalPoints
                 position == IF floor < 1 THEN 1 ELSE floor
             IN /\ after.data = before.data
                /\ after.normalRange = before.normalRange
                /\ after.id = before.id
                /\ after.name = before.name
                /\ after.currentValue = before.data[position].value ]_vars

\* A replay of a dataset longer than the window, part of the way through:
\* the channel shows a sample that is neither its first nor its last.
C21_Witness ==
  /\ Mounted /\ ~isConnected /\ isPlaying /\ ~runInfo.isComplete
  /\ runInfo.processedPoints > 0
  /\ Len(equipments) > 0
  /\ Len(equipments[1].data) = WindowSize
  /\ LET shown == (WindowSize * runInfo.processedPoints) \div runInfo.totalPoints
     IN /\ shown > 1 /\ shown < WindowSize
        /\ equipments[1].currentValue = equipments[1].data[shown].value

\* C22 as stated: a replay that is running (after Restart: isPlaying and not
\* isComplete) reaches isComplete unless the user pauses it or leaves the
\* Dashboard, with a dataset as well as with simulated hardware data and no
\* dataset.
C22_RestartCompletes ==
  (Mounted /\ isPlaying /\ ~runInfo.isComplete)
    ~> (runInfo.isComplete \/ ~isPlaying \/ ~Mounted)

\* C23 as stated: on the Upload page, whenever uploadComplete is true,
\* uploadProgress is 100 (and so stays 100 for as long as uploadComplete is
\* true on the page), whatever attempts were made before.
C23_CompleteMeansFull ==
  (OnUploadPage /\ uploadComplete) => uploadProgress = ProgressDone

\* C25 as stated: in every reachable Dashboard state with processedPoints > 0,
\* anomaliesFound <= processedPoints (processedPoints is kept in halves).
C25_AnomaliesWithinProcessed ==
  (Mounted /\ runInfo.processedPoints > 0) =>
    runInfo.anomaliesFound * PointScale <= runInfo.processedPoints

\* C26: whenever a playback interval is live whose callback has channels to
\* update, totalPoints is positive, every channel has samples, and the
\* position the next tick computes for a channel lies in 1..sampleCount.
C26_TickPositionInRange ==
  Mounted =>
    \A t \in BagToSet(intervals) :
      Len(t.equipments) > 0 =>
        /\ runInfo.totalPoints > 0
        /\ \A x \in 1..Len(t.equipments) :
             LET length == Len(t.equipments[x].data)
             IN /\ length >= 1
                /\ PointsToShow(length, NewProcessed(runInfo, t.speed),
                                runInfo.totalPoints) \in 1..length

\* A replay at half speed before its first tick: floor(length * progress) is
\* 0 for the next tick, and the position is 1.
C26_Witness ==
  /\ Mounted /\ timer.on /\ timer.speed = 1
  /\ runInfo.processedPoints = 0
  /\ Len(timer.equipments) > 0
  /\ (Len(timer.equipments[1].data) * NewProcessed(runInfo, 1))
       \div runInfo.totalPoints = 0

\* C27 as stated: after a load from a dataset or from the hardware
\* simulation, anomalyDistribution.anomaly = anomaliesFound and
\* normal + warning + anomaly = totalPoints, for every dataset, and ticks and
\* restart keep both (totalPoints is kept in halves).
C27_DistributionMatchesRunInfo ==
  (Mounted /\ (isConnected \/ Len(currentDataset.data) > 0)) =>
    /\ anomalyDistribution.anomaly = runInfo.anomaliesFound
    /\ Pt(anomalyDistribution.normal + anomalyDistribution.warning
            + anomalyDistribution.anomaly) = runInfo.totalPoints

\* every record of the dataset carries one of the two canonical labels
TwoLabels(dataset) ==
  \A i \in 1..Len(dataset.data) :
    Get(dataset.data[i], "Prediction").s \in {"Failure", "No Failure"}

\* C27 amended: after a load, and through ticks and restart,
\* anomalyDistribution.anomaly = anomaliesFound for every dataset and for the
\* hardware simulation; normal + warning + anomaly = totalPoints for the
\* hardware simulation and for the datasets all of whose records are labelled
\* "Failure" or "No Failure" (a record with another label is counted in
\* totalPoints and in no class).
C27_DistributionOfTwoLabels ==
  (Mounted /\ (isConnected \/ Len(currentDataset.data) > 0)) =>
    /\ anomalyDistribution.anomaly = runInfo.anomaliesFound
    /\ (isConnected \/ TwoLabels(currentDataset)) =>
         Pt(anomalyDistribution.normal + anomalyDistribution.warning
              + anomalyDistribution.anomaly) = runInfo.totalPoints
    /\ (~isConnected /\ ~TwoLabels(currentDataset)) =>
         Pt(anomalyDistribution.normal + anomalyDistribution.warning
              + anomalyDistribution.anomaly) < runInfo.totalPoints

\* A replay, part of the way through, of a dataset with records of both
\* labels.
C27_Witness ==
  /\ Mounted /\ ~isConnected /\ TwoLabels(currentDataset)
  /\ isPlaying /\ ~runInfo.isComplete /\ runInfo.processedPoints > 0
  /\ anomalyDistribution.anomaly > 0 /\ anomalyDistribution.normal > 0
  /\ anomalyDistribution.anomaly = runInfo.anomaliesFound

\* C28: on the Upload page uploadedFile and selectedSample are never both
\* set, whatever files are chosen, samples selected and files removed, and a
\* call of handleUpload changes something only when one of them is set.
C28_FileOrSampleNotBoth ==
  /\ [] ~(uploadedFile # NoFile /\ selectedSample # NoSample)
  /\ [][ (OnUploadPage /\ uploadedFile = NoFile /\ selectedSample = NoSample)
           => ~handleUpload ]_vars

\* A file chosen while the upload of a selected sample is still in flight:
\* the sample selection was reset by the choice of the file.
C28_Witness ==
  /\ OnUploadPage
  /\ uploadedFile # NoFile /\ selectedSample = NoSample
  /\ \E a \in BagToSet(attempts) : a.id # 0 /\ a.kind = "sample"

\* C29: a load made while isConnected is true uses the simulated hardware
\* data whether or not a dataset is present (RunInfo {100, 100, 3, true} and
\* the channels pump-1, motor-1, flow-1); currentDataset is processed only by
\* a load made while isConnected is false and currentDataset is non-null.
C29_ConnectionBeforeDataset ==
  /\ [] ((Mounted /\ isConnected) =>
           /\ runInfo.totalPoints = HwPoints
           /\ runInfo.anomaliesFound = HwAnomalies
           /\ [x \in 1..Len(equipments) |-> equipments[x].id]
                = << <<"pump", 1>>, <<"motor", 1>>, <<"flow", 1>> >>)
  /\ [][ LoadStep =>
           IF isConnected'
           THEN /\ runInfo' = [totalPoints |-> HwPoints,
                               processedPoints |-> HwPoints,
                               anomaliesFound |-> HwAnomalies,
                               isComplete |-> TRUE]
                /\ \E seed \in SeedsFor(TRUE) :
                     equipments' = HardwareEquipments(seed)
           ELSE /\ currentDataset'.present
                /\ runInfo'.totalPoints = Pt(currentDataset'.records)
                /\ \A x \in 1..Len(equipments') :
                     ~IsHardwareChannel(equipments'[x]) ]_vars

\* The Dashboard mounted with a connection and a non-empty dataset at once,
\* showing the hardware run.
C29_Witness ==
  /\ Mounted /\ isConnected
  /\ currentDataset.present /\ Len(currentDataset.data) > 0
  /\ runInfo.totalPoints = HwPoints /\ runInfo.isComplete
  /\ Len(equipments) = 3 /\ IsHardwareChannel(equipments[1])

\* the number of records of a data array predicted "Failure"
FailureCount(data) ==
  Cardinality({i \in 1..Len(data) : Get(data[i], "Prediction").s = "Failure"})

\* C30: every dataset the Upload page passes to setCurrentDataset has records
\* equal to the length of its data array and anomaliesCount equal to the
\* number of its records predicted "Failure"; the navigation to /dashboard is
\* scheduled only in the step that calls setCurrentDataset for the attempt,
\* and the dataset is set only by the one resolution of an attempt, which
\* ends that attempt.
C30_UploadedDatasetConsistent ==
  /\ [] (currentDataset.present =>
           /\ currentDataset.records = Len(currentDataset.data)
           /\ currentDataset.anomaliesCount = FailureCount(currentDataset.data))
  /\ [][ (navTimeouts' > navTimeouts \/ currentDataset' # currentDataset) =>
           /\ navTimeouts' = navTimeouts + 1
           /\ currentDataset'.present
           /\ \E a \in BagToSet(attempts) :
                /\ attempts' (+) SetToBag({a}) = attempts
                /\ currentDataset'.data \in Predictions(a) ]_vars
  /\ [][ \A a \in BagToSet(attempts) :
           UploadMalformed(a) =>
             (currentDataset' = currentDataset /\ navTimeouts' = navTimeouts) ]_vars

\* An upload has resolved with records of which some are predicted
\* "Failure": the dataset is set and the navigation is pending.
C30_Witness ==
  /\ OnUploadPage /\ uploadComplete /\ navTimeouts > 0
  /\ currentDataset.present
  /\ currentDataset.anomaliesCount > 0
  /\ currentDataset.anomaliesCount < currentDataset.records

\* C24 as stated: while the Connect page is mounted, isConnected is true
\* exactly when connectionStatus is 'connected', for every interleaving of
\* connect clicks, timer expiries and disconnects.
C24_ConnectedIffStatus ==
  OnConnectPage => (isConnected <=> connectionStatus = "connected")

====
